---- MODULE Spec2Model ----
(***************************************************************************)
(* Model of src/src/scripts.ts: class CountryTable, a paginated,           *)
(* searchable, sortable table bound to a json-server style collection      *)
(* endpoint.                                                               *)
(*                                                                         *)
(* The state is the object's fields (currentPage, limit, searchParams,     *)
(* sortColumn, sortDirection), the two pieces of the document the class    *)
(* writes (the rows of <tbody>, the text of #entriesAmount) and the async  *)
(* calls that are suspended at an await (tasks).  Every macrotask of the   *)
(* browser's event loop is one action: a DOM event handler run up to its   *)
(* first await, or the completion of one network promise followed by the   *)
(* continuation of the async function that awaited it.                     *)
(*                                                                         *)
(* The document is the one the script is written for: <select>, #input1..4,*)
(* #prevButton, #nextButton, <tbody> and #entriesAmount all exist.         *)
(***************************************************************************)
EXTENDS Integers, Sequences, FiniteSets, Bags, TLC

\* ------------------------------------------------------------------ bounds
\* Number of user events (DOM events) in one behaviour of Spec.
MaxEvents == 3
\* Number of user events in one behaviour of SpecOverlap.
MaxOverlapEvents == 1
\* Number of async calls suspended at an await at the same time in SpecOverlap.
MaxTasks == 2
\* Number of items in the remote collection.
NumCountries == 12

\* ------------------------------------------------------------------ text
\* Strings are sequences of characters; " " is the white space trim() removes.
Space == " "

RECURSIVE TrimStart(_)
TrimStart(s) ==
    IF s # <<>> /\ Head(s) = Space THEN TrimStart(Tail(s)) ELSE s

RECURSIVE TrimEnd(_)
TrimEnd(s) ==
    IF s # <<>> /\ s[Len(s)] = Space THEN TrimEnd(SubSeq(s, 1, Len(s) - 1)) ELSE s

\* Trim as it would be with the white space at the end left in place.
TrimStartOnly(s) == TrimStart(s)

\* String.prototype.trim, scripts.ts:81
Trim(s) == TrimEnd(TrimStart(s))

\* needle occurs in hay as a contiguous substring (json-server's <field>_like)
Contains(hay, needle) ==
    \E k \in 0..(Len(hay) - Len(needle)) :
        SubSeq(hay, k + 1, k + Len(needle)) = needle

UpperChars == <<"A", "B", "C", "D", "E", "F", "G", "H", "I", "J", "K", "L", "M", "N", "O", "P">>
LowerChars == <<"a", "b", "c", "d", "e", "f", "g", "h", "i", "j", "k", "l", "m", "n", "o", "p">>

\* String.prototype.toLocaleLowerCase on one character, scripts.ts:212
LowerChar(c) ==
    IF \E k \in 1..Len(UpperChars) : UpperChars[k] = c
    THEN LowerChars[CHOOSE k \in 1..Len(UpperChars) : UpperChars[k] = c]
    ELSE c

ToLocaleLowerCase(s) == [k \in 1..Len(s) |-> LowerChar(s[k])]

\* Ceil as it would be if the quotient were rounded down.
CeilRoundsDown(a, b) == a \div b

\* Math.ceil(a / b) for a >= 0, b > 0, scripts.ts:130
Ceil(a, b) == (a + b - 1) \div b

\* The data-column attributes of the .sortable-column headers.
SortableColumns == {"name", "capital"}

\* ------------------------------------------------------------------ the remote collection
\* interface Country, scripts.ts:1-18 (the fields the script reads)
Country(i) ==
    [code     |-> <<UpperChars[i]>>,
     name     |-> IF i % 6 = 3 THEN <<"f", "r", "a">>
                  ELSE IF i % 2 = 0 THEN <<"r", "f">> ELSE <<"a", "f">>,
     capital  |-> IF i % 2 = 1 THEN <<"a", "f", "r">> ELSE <<"r", "a">>,
     currency |-> [name |-> <<"r", "a">>],
     language |-> [name |-> <<"f", "r">>]]

Countries == [i \in 1..NumCountries |-> Country(i)]

\* The value of the field a query parameter or a sort column names.
FieldOf(c, key) ==
    CASE key \in {"name_like", "name"} -> c.name
      [] key \in {"capital_like", "capital"} -> c.capital
      [] key = "currency.name_like" -> c.currency.name
      [] key = "language.name_like" -> c.language.name
      [] OTHER -> <<>>

\* An item matches when every filter parameter of the query matches.
Matches(c, params) ==
    \A key \in DOMAIN params : Contains(FieldOf(c, key), params[key])

MatchingIds(params) == {i \in 1..NumCountries : Matches(Countries[i], params)}

\* X-Total-Count of a query: the items matching its filter, ignoring pagination.
XTotalCount(url) == Cardinality(MatchingIds(url.params))

CharRank(c) ==
    IF \E k \in 1..Len(LowerChars) : LowerChars[k] = c
    THEN CHOOSE k \in 1..Len(LowerChars) : LowerChars[k] = c
    ELSE 0

RECURSIVE StrLess(_, _)
StrLess(a, b) ==
    IF b = <<>> THEN FALSE
    ELSE IF a = <<>> THEN TRUE
    ELSE IF CharRank(Head(a)) # CharRank(Head(b)) THEN CharRank(Head(a)) < CharRank(Head(b))
    ELSE StrLess(Tail(a), Tail(b))

\* i is listed before j in the response to a query with this sort.
Before(i, j, sort) ==
    IF sort = <<>> THEN i < j
    ELSE LET a == FieldOf(Countries[i], sort[1])
             b == FieldOf(Countries[j], sort[1])
         IN IF a = b THEN i < j
            ELSE IF sort[2] = "asc" THEN StrLess(a, b) ELSE StrLess(b, a)

RECURSIVE InsertSorted(_, _, _)
\* ids, already in the order of sort, with i put in its place.
InsertSorted(ids, i, sort) ==
    IF ids = <<>> THEN <<i>>
    ELSE IF Before(i, Head(ids), sort) THEN <<i>> \o ids
    ELSE <<Head(ids)>> \o InsertSorted(Tail(ids), i, sort)

RECURSIVE SortedIds(_, _)
\* The items 1..n in the order of sort (stable).
SortedIds(n, sort) ==
    IF n = 0 THEN <<>> ELSE InsertSorted(SortedIds(n - 1, sort), n, sort)

\* The sorts a query can ask for: none, or a sortable column and a direction.
SortOrders == {<<>>} \cup {<<column, direction>> : column \in SortableColumns, direction \in {"asc", "desc"}}

\* The order of the whole collection under each sort, computed once.
SortedTable == {<<sort, SortedIds(NumCountries, sort)>> : sort \in SortOrders}

OrderOf(sort) == (CHOOSE entry \in SortedTable : entry[1] = sort)[2]

\* The matching items in the order of the query's sort.
Ordered(url) ==
    SelectSeq(OrderOf(url.sort), LAMBDA i : Matches(Countries[i], url.params))

RECURSIVE ItemsOf(_)
ItemsOf(ids) == IF ids = <<>> THEN <<>> ELSE <<Countries[Head(ids)]>> \o ItemsOf(Tail(ids))

\* The part of a sequence a query's _start and _limit select.
Slice(all, start, lim) ==
    SubSeq(all, start + 1, IF start + lim < Len(all) THEN start + lim ELSE Len(all))

\* The body of the response to a data query: one slice of the ordered matches.
ResponseItems(url) == ItemsOf(Slice(Ordered(url), url.start, url.limit))

\* ------------------------------------------------------------------ the document's inputs
\* The values of the <option>s of the entry-limit <select>: the type of limit, scripts.ts:25
SelectValues == {<<"5">>, <<"1", "0">>, <<"2", "0">>}

\* #input1 .. #input4, scripts.ts:45
InputIndexes == 1..4

\* What a search input may hold when its input event fires.
InputValues ==
    {<<>>, <<"f">>, <<" ", "f", " ">>, <<"f", "r">>, <<" ", "f", "r">>, <<"f", " ">>}

Digits == <<"0", "1", "2", "3", "4", "5", "6", "7", "8", "9">>

DigitValue(c) == (CHOOSE k \in 1..10 : Digits[k] = c) - 1

RECURSIVE ToNumber(_)
\* Number(selectedValue) on a decimal string, scripts.ts:73
ToNumber(s) ==
    IF s = <<>> THEN 0 ELSE 10 * ToNumber(SubSeq(s, 1, Len(s) - 1)) + DigitValue(s[Len(s)])

\* ------------------------------------------------------------------ the controller
VARIABLES
    currentPage,    \* this.currentPage
    limit,          \* this.limit
    searchParams,   \* this.searchParams: a function from parameter names to texts
    sortColumn,     \* this.sortColumn, Null or a column name
    sortDirection,  \* this.sortDirection
    tbody,          \* the rows of <tbody>, in document order
    entriesAmount,  \* the text of #entriesAmount
    tasks,          \* the async calls suspended at an await: a bag, their order plays no part
    issued,         \* the requests the last step sent, in order
    logged,         \* the console.error messages of the last step
    last,           \* the handler or continuation the last step ran; for a DOM event, the fields before it
    events          \* the number of DOM events handled so far

vars == <<currentPage, limit, searchParams, sortColumn, sortDirection,
          tbody, entriesAmount, tasks, issued, logged, last, events>>

listState == <<currentPage, limit, searchParams, sortColumn, sortDirection>>

\* The fields of the object as one value.
ListState ==
    [currentPage |-> currentPage, limit |-> limit, searchParams |-> searchParams,
     sortColumn |-> sortColumn, sortDirection |-> sortDirection]

Null == "null"
NoText == <<>>

\* `${this.apiUrl}?_limit=${this.limit}&_start=${offset}`, scripts.ts:169
BaseApiUrl(lim, offset) == [limit |-> lim, start |-> offset, params |-> <<>>, sort |-> <<>>]

\* `${this.apiUrl}?_limit=1`, scripts.ts:112
CountUrl == [limit |-> 1, start |-> 0, params |-> <<>>, sort |-> <<>>]

\* buildApiUrl as it would be if the sort parameters were appended to the base
\* url instead of the url that carries the filter.
BuildApiUrlSortDropsFilter(baseApiUrl, params, column, direction) ==
    IF column # Null
    THEN [baseApiUrl EXCEPT !.sort = <<column, direction>>]
    ELSE IF Cardinality(DOMAIN params) > 0
         THEN [baseApiUrl EXCEPT !.params = params]
         ELSE baseApiUrl

\* buildApiUrl, scripts.ts:185-197
BuildApiUrl(baseApiUrl, params, column, direction) ==
    LET withParams == IF Cardinality(DOMAIN params) > 0
                      THEN [baseApiUrl EXCEPT !.params = params]
                      ELSE baseApiUrl
    IN IF column # Null
       THEN [withParams EXCEPT !.sort = <<column, direction>>]
       ELSE withParams

\* FetchOffset as it would be if the offset were the 1-based position of the
\* first item of the page.
FetchOffsetOneBased(page, lim) == (page - 1) * lim + 1

\* const offset = (this.currentPage - 1) * this.limit, scripts.ts:168
FetchOffset(page, lim) == (page - 1) * lim

\* fetchData as it would be if its url never carried the sort parameters.
FetchDataUnsorted(page, lim, params, column, direction) ==
    [fn     |-> "fetchData",
     pc     |-> "fetch",
     offset |-> FetchOffset(page, lim),
     url    |-> BuildApiUrl(BaseApiUrl(lim, FetchOffset(page, lim)), params, Null, direction)]

\* fetchData up to its first await (scripts.ts:166-172): the suspended call.
FetchData(page, lim, params, column, direction) ==
    [fn     |-> "fetchData",
     pc     |-> "fetch",
     offset |-> FetchOffset(page, lim),
     url    |-> BuildApiUrl(BaseApiUrl(lim, FetchOffset(page, lim)), params, column, direction)]

DataRequest(task) == [kind |-> "data", url |-> task.url]
CountRequest == [kind |-> "count", url |-> CountUrl]

\* The <tr> renderItems builds for one country, scripts.ts:205-239
Row(country) ==
    [flag     |-> ToLocaleLowerCase(country.code),
     name     |-> country.name,
     capital  |-> country.capital,
     currency |-> country.currency.name,
     language |-> country.language.name]

RECURSIVE RenderItemsPrepends(_)
\* renderItems as it would be if each row were inserted before the rows already there.
RenderItemsPrepends(countries) ==
    IF countries = <<>> THEN <<>> ELSE RenderItemsPrepends(Tail(countries)) \o <<Row(Head(countries))>>

RECURSIVE RenderItems(_)
\* renderItems, scripts.ts:199-242: <tbody> is emptied, then one row appended per item.
RenderItems(countries) ==
    IF countries = <<>> THEN <<>> ELSE <<Row(Head(countries))>> \o RenderItems(Tail(countries))

\* The text written to #entriesAmount, scripts.ts:178
SummaryText(offset, lim, totalEntries) ==
    [from |-> offset + 1, to |-> offset + lim, of |-> totalEntries]

\* getNumberOfEntries, scripts.ts:110-118: the header's number, 0 for a missing
\* header (Number(null)), 0 after a failed request.
NumberOfEntries(outcome) ==
    IF outcome = "ok" THEN XTotalCount(CountUrl) ELSE 0

CountOutcomes == {"ok", "noHeader", "fail"}

CountLog(outcome) ==
    IF outcome = "fail" THEN <<"Error fetching total amount of API entries:">> ELSE <<>>

\* The state after the constructor (scripts.ts:24-37): the field initialisers,
\* then fetchData() suspended at its fetch.
Init ==
    /\ currentPage = 1
    /\ limit = 5
    /\ searchParams = <<>>
    /\ sortColumn = Null
    /\ sortDirection = "asc"
    /\ tbody = <<>>
    /\ entriesAmount = NoText
    /\ tasks = SetToBag({FetchData(1, 5, <<>>, Null, "asc")})
    /\ issued = <<DataRequest(FetchData(1, 5, <<>>, Null, "asc"))>>
    /\ logged = <<>>
    /\ last = [op |-> "constructor"]
    /\ events = 0

\* handleSelectChange as it would be without the reset of the page.
HandleSelectChangeKeepsPage(selectedValue) ==
    /\ limit' = ToNumber(selectedValue)
    /\ currentPage' = currentPage
    /\ LET call == FetchData(currentPage', limit', searchParams, sortColumn, sortDirection)
       IN /\ tasks' = tasks (+) SetToBag({call})
          /\ issued' = <<DataRequest(call)>>
    /\ logged' = <<>>
    /\ last' = [op |-> "handleSelectChange", before |-> ListState]
    /\ events' = events + 1
    /\ UNCHANGED <<searchParams, sortColumn, sortDirection, tbody, entriesAmount>>

\* handleSelectChange, scripts.ts:71-76
HandleSelectChange(selectedValue) ==
    /\ limit' = ToNumber(selectedValue)
    /\ currentPage' = 1
    /\ LET call == FetchData(currentPage', limit', searchParams, sortColumn, sortDirection)
       IN /\ tasks' = tasks (+) SetToBag({call})
          /\ issued' = <<DataRequest(call)>>
    /\ logged' = <<>>
    /\ last' = [op |-> "handleSelectChange", before |-> ListState]
    /\ events' = events + 1
    /\ UNCHANGED <<searchParams, sortColumn, sortDirection, tbody, entriesAmount>>

\* NewSearchParams as it would be if the new parameter were added to the old ones.
NewSearchParamsMerged(index, inputValue, params) ==
    IF Len(inputValue) >= 2
    THEN CASE index = 1 -> ("name_like" :> inputValue) @@ params
           [] index = 2 -> ("capital_like" :> inputValue) @@ params
           [] index = 3 -> ("currency.name_like" :> inputValue) @@ params
           [] index = 4 -> ("language.name_like" :> inputValue) @@ params
           [] OTHER -> params
    ELSE <<>>

\* The value handleInput assigns to this.searchParams, scripts.ts:83-103
NewSearchParams(index, inputValue, params) ==
    IF Len(inputValue) >= 2
    THEN CASE index = 1 -> ("name_like" :> inputValue)
           [] index = 2 -> ("capital_like" :> inputValue)
           [] index = 3 -> ("currency.name_like" :> inputValue)
           [] index = 4 -> ("language.name_like" :> inputValue)
           [] OTHER -> params
    ELSE <<>>

\* handleInput as it would be without the reset of the page.
HandleInputKeepsPage(index, value) ==
    /\ searchParams' = NewSearchParams(index, Trim(value), searchParams)
    /\ currentPage' = currentPage
    /\ LET call == FetchData(currentPage', limit, searchParams', sortColumn, sortDirection)
       IN /\ tasks' = tasks (+) SetToBag({call})
          /\ issued' = <<DataRequest(call)>>
    /\ logged' = <<>>
    /\ last' = [op |-> "handleInput", before |-> ListState]
    /\ events' = events + 1
    /\ UNCHANGED <<limit, sortColumn, sortDirection, tbody, entriesAmount>>

\* handleInput, scripts.ts:79-107
HandleInput(index, value) ==
    /\ searchParams' = NewSearchParams(index, Trim(value), searchParams)
    /\ currentPage' = 1
    /\ LET call == FetchData(currentPage', limit, searchParams', sortColumn, sortDirection)
       IN /\ tasks' = tasks (+) SetToBag({call})
          /\ issued' = <<DataRequest(call)>>
    /\ logged' = <<>>
    /\ last' = [op |-> "handleInput", before |-> ListState]
    /\ events' = events + 1
    /\ UNCHANGED <<limit, sortColumn, sortDirection, tbody, entriesAmount>>

\* handlePrevButtonClick as it would be without the test of the page.
HandlePrevButtonClickUnguarded ==
    /\ currentPage' = currentPage - 1
    /\ LET call == FetchData(currentPage', limit, searchParams, sortColumn, sortDirection)
       IN /\ tasks' = tasks (+) SetToBag({call})
          /\ issued' = <<DataRequest(call)>>
    /\ logged' = <<>>
    /\ last' = [op |-> "handlePrevButtonClick", before |-> ListState]
    /\ events' = events + 1
    /\ UNCHANGED <<limit, searchParams, sortColumn, sortDirection, tbody, entriesAmount>>

\* handlePrevButtonClick, scripts.ts:121-126
HandlePrevButtonClick ==
    /\ IF currentPage > 1
       THEN /\ currentPage' = currentPage - 1
            /\ LET call == FetchData(currentPage', limit, searchParams, sortColumn, sortDirection)
               IN /\ tasks' = tasks (+) SetToBag({call})
                  /\ issued' = <<DataRequest(call)>>
       ELSE /\ UNCHANGED <<currentPage, tasks>>
            /\ issued' = <<>>
    /\ logged' = <<>>
    /\ last' = [op |-> "handlePrevButtonClick", before |-> ListState]
    /\ events' = events + 1
    /\ UNCHANGED <<limit, searchParams, sortColumn, sortDirection, tbody, entriesAmount>>

\* handleNextButtonClick up to its await (scripts.ts:127-129): getNumberOfEntries
\* has sent its request.
HandleNextButtonClick ==
    /\ tasks' = tasks (+) SetToBag({[fn |-> "handleNextButtonClick", pc |-> "count"]})
    /\ issued' = <<CountRequest>>
    /\ logged' = <<>>
    /\ last' = [op |-> "handleNextButtonClick", before |-> ListState]
    /\ events' = events + 1
    /\ UNCHANGED <<listState, tbody, entriesAmount>>

\* NewSortDirection as it would be if it toggled whatever column is clicked.
NewSortDirectionAlwaysToggles(column, current, direction) ==
    IF direction = "asc" THEN "desc" ELSE "asc"

\* The direction handleSortClick assigns, scripts.ts:143
NewSortDirection(column, current, direction) ==
    IF column = current THEN (IF direction = "asc" THEN "desc" ELSE "asc") ELSE "asc"

\* handleSortClick as it would be if it went back to the first page.
HandleSortClickResetsPage(column) ==
    /\ sortDirection' = NewSortDirection(column, sortColumn, sortDirection)
    /\ sortColumn' = column
    /\ currentPage' = 1
    /\ LET call == FetchData(currentPage', limit, searchParams, sortColumn', sortDirection')
       IN /\ tasks' = tasks (+) SetToBag({call})
          /\ issued' = <<DataRequest(call)>>
    /\ logged' = <<>>
    /\ last' = [op |-> "handleSortClick", before |-> ListState]
    /\ events' = events + 1
    /\ UNCHANGED <<limit, searchParams, tbody, entriesAmount>>

\* handleSortClick, scripts.ts:142-164
HandleSortClick(column) ==
    /\ sortDirection' = NewSortDirection(column, sortColumn, sortDirection)
    /\ sortColumn' = column
    /\ LET call == FetchData(currentPage, limit, searchParams, sortColumn', sortDirection')
       IN /\ tasks' = tasks (+) SetToBag({call})
          /\ issued' = <<DataRequest(call)>>
    /\ logged' = <<>>
    /\ last' = [op |-> "handleSortClick", before |-> ListState]
    /\ events' = events + 1
    /\ UNCHANGED <<currentPage, limit, searchParams, tbody, entriesAmount>>

\* ------------------------------------------------------------------ network completions
IsAt(t, fn, pc) == BagIn(t, tasks) /\ t.fn = fn /\ t.pc = pc

Without(t) == tasks (-) SetToBag({t})

Resumed(t, pc) == Without(t) (+) SetToBag({[t EXCEPT !.pc = pc]})

\* fetch(apiUrlWithParams) resolves (scripts.ts:172); response.json() is awaited next.
FetchResolved(t) ==
    /\ IsAt(t, "fetchData", "fetch")
    /\ tasks' = Resumed(t, "json")
    /\ issued' = <<>>
    /\ logged' = <<>>
    /\ last' = [op |-> "fetchResolved"]
    /\ UNCHANGED <<listState, tbody, entriesAmount, events>>

\* FetchRejected as it would be if a rejected request were sent again.
FetchRejectedRetries(t) ==
    /\ IsAt(t, "fetchData", "fetch")
    /\ tasks' = tasks
    /\ issued' = <<DataRequest(t)>>
    /\ logged' = <<"Error fetching data from API:">>
    /\ last' = [op |-> "fetchRejected"]
    /\ UNCHANGED <<listState, tbody, entriesAmount, events>>

\* fetch(apiUrlWithParams) rejects: the catch of fetchData, scripts.ts:180-182
FetchRejected(t) ==
    /\ IsAt(t, "fetchData", "fetch")
    /\ tasks' = Without(t)
    /\ issued' = <<>>
    /\ logged' = <<"Error fetching data from API:">>
    /\ last' = [op |-> "fetchRejected"]
    /\ UNCHANGED <<listState, tbody, entriesAmount, events>>

\* JsonResolved as it would be with a discard rule: a response whose query is
\* no longer the one of the fields is dropped.
JsonResolvedDiscardsStale(t) ==
    /\ IsAt(t, "fetchData", "json")
    /\ IF t.url = FetchData(currentPage, limit, searchParams, sortColumn, sortDirection).url
       THEN /\ tbody' = RenderItems(ResponseItems(t.url))
            /\ tasks' = Resumed(t, "count")
            /\ issued' = <<CountRequest>>
       ELSE /\ tbody' = tbody
            /\ tasks' = Without(t)
            /\ issued' = <<>>
    /\ logged' = <<>>
    /\ last' = [op |-> "jsonResolved"]
    /\ UNCHANGED <<listState, entriesAmount, events>>

\* response.json() resolves with the array of items: renderItems(data), then
\* getNumberOfEntries() sends its request and is awaited, scripts.ts:173-177
JsonResolved(t) ==
    /\ IsAt(t, "fetchData", "json")
    /\ tbody' = RenderItems(ResponseItems(t.url))
    /\ tasks' = Resumed(t, "count")
    /\ issued' = <<CountRequest>>
    /\ logged' = <<>>
    /\ last' = [op |-> "jsonResolved"]
    /\ UNCHANGED <<listState, entriesAmount, events>>

\* response.json() resolves with a value that is no array (the body of an error
\* response): renderItems empties <tbody>, countries.forEach throws, scripts.ts:202-204
JsonNotArray(t) ==
    /\ IsAt(t, "fetchData", "json")
    /\ tbody' = <<>>
    /\ tasks' = Without(t)
    /\ issued' = <<>>
    /\ logged' = <<"Error fetching data from API:">>
    /\ last' = [op |-> "jsonNotArray"]
    /\ UNCHANGED <<listState, entriesAmount, events>>

\* response.json() rejects (unparseable body): the catch of fetchData.
JsonRejected(t) ==
    /\ IsAt(t, "fetchData", "json")
    /\ tasks' = Without(t)
    /\ issued' = <<>>
    /\ logged' = <<"Error fetching data from API:">>
    /\ last' = [op |-> "jsonRejected"]
    /\ UNCHANGED <<listState, tbody, entriesAmount, events>>

\* getNumberOfEntries settles inside fetchData: the summary is written with the
\* offset computed before the awaits and this.limit as it is now, scripts.ts:177-178
FetchDataCountSettled(t, outcome) ==
    /\ IsAt(t, "fetchData", "count")
    /\ entriesAmount' = SummaryText(t.offset, limit, NumberOfEntries(outcome))
    /\ tasks' = Without(t)
    /\ issued' = <<>>
    /\ logged' = CountLog(outcome)
    /\ last' = [op |-> "fetchDataCountSettled", outcome |-> outcome]
    /\ UNCHANGED <<listState, tbody, events>>

\* NextCountSettled as it would be if an unknown total (0) let the page advance.
NextCountSettledAdvancesOnUnknown(t, outcome) ==
    /\ IsAt(t, "handleNextButtonClick", "count")
    /\ LET totalEntries == NumberOfEntries(outcome)
           totalPages   == Ceil(totalEntries, limit)
       IN IF totalEntries = 0 \/ currentPage < totalPages
          THEN /\ currentPage' = currentPage + 1
               /\ LET call == FetchData(currentPage', limit, searchParams, sortColumn, sortDirection)
                  IN /\ tasks' = Without(t) (+) SetToBag({call})
                     /\ issued' = <<DataRequest(call)>>
          ELSE /\ UNCHANGED currentPage
               /\ tasks' = Without(t)
               /\ issued' = <<>>
    /\ logged' = CountLog(outcome)
    /\ last' = [op |-> "nextCountSettled", outcome |-> outcome]
    /\ UNCHANGED <<limit, searchParams, sortColumn, sortDirection, tbody, entriesAmount, events>>

\* getNumberOfEntries settles inside handleNextButtonClick, scripts.ts:129-135
NextCountSettled(t, outcome) ==
    /\ IsAt(t, "handleNextButtonClick", "count")
    /\ LET totalEntries == NumberOfEntries(outcome)
           totalPages   == Ceil(totalEntries, limit)
       IN IF currentPage < totalPages
          THEN /\ currentPage' = currentPage + 1
               /\ LET call == FetchData(currentPage', limit, searchParams, sortColumn, sortDirection)
                  IN /\ tasks' = Without(t) (+) SetToBag({call})
                     /\ issued' = <<DataRequest(call)>>
          ELSE /\ UNCHANGED currentPage
               /\ tasks' = Without(t)
               /\ issued' = <<>>
    /\ logged' = CountLog(outcome)
    /\ last' = [op |-> "nextCountSettled", outcome |-> outcome]
    /\ UNCHANGED <<limit, searchParams, sortColumn, sortDirection, tbody, entriesAmount, events>>

\* A promise of a suspended call settles and the call runs on.
Settled ==
    \/ \E t \in BagToSet(tasks) : FetchResolved(t)
    \/ \E t \in BagToSet(tasks) : FetchRejected(t)
    \/ \E t \in BagToSet(tasks) : JsonResolved(t)
    \/ \E t \in BagToSet(tasks) : JsonNotArray(t)
    \/ \E t \in BagToSet(tasks) : JsonRejected(t)
    \/ \E t \in BagToSet(tasks), outcome \in CountOutcomes : FetchDataCountSettled(t, outcome)
    \/ \E t \in BagToSet(tasks), outcome \in CountOutcomes : NextCountSettled(t, outcome)

\* The user acts when the table is idle: up to MaxEvents events, each taken
\* after the calls of the one before have finished.
Idle == events < MaxEvents /\ tasks = EmptyBag

\* The listeners setupEventListeners adds (scripts.ts:39-68), and the settling promises.
Next ==
    \/ \E selectedValue \in SelectValues : Idle /\ HandleSelectChange(selectedValue)
    \/ \E index \in InputIndexes, value \in InputValues : Idle /\ HandleInput(index, value)
    \/ Idle /\ HandlePrevButtonClick
    \/ Idle /\ HandleNextButtonClick
    \/ \E column \in SortableColumns : Idle /\ HandleSortClick(column)
    \/ Settled

Spec == Init /\ [][Next]_vars

\* The user acts while calls are in flight: up to MaxOverlapEvents events, taken
\* at any moment at which fewer than MaxTasks calls are suspended.
Room == events < MaxOverlapEvents /\ BagCardinality(tasks) < MaxTasks

NextOverlap ==
    \/ \E selectedValue \in SelectValues : Room /\ HandleSelectChange(selectedValue)
    \/ \E index \in InputIndexes, value \in InputValues : Room /\ HandleInput(index, value)
    \/ Room /\ HandlePrevButtonClick
    \/ Room /\ HandleNextButtonClick
    \/ \E column \in SortableColumns : Room /\ HandleSortClick(column)
    \/ Settled

SpecOverlap == Init /\ [][NextOverlap]_vars

\* SpecOverlap when every request in flight eventually responds or fails: a
\* settling that stays possible is eventually taken.
SpecFair == Init /\ [][NextOverlap]_vars /\ WF_vars(Settled)

\* ------------------------------------------------------------------ properties
\* The data query the last step sent, when it sent exactly one request and that
\* request is a data query.
SentOneDataQuery == Len(issued) = 1 /\ issued[1].kind = "data"

\* The number of items of the collection matching a filter, ignoring pagination.
TotalMatching(params) ==
    Cardinality({i \in 1..NumCountries : Matches(Countries[i], params)})

\* C1: goToNextPage never advances page past ceil(totalCount/pageSize), where
\* totalCount is the number of items matching the active filter: after an
\* advance, page <= ceil(totalCount/pageSize), that is (page-1)*pageSize <
\* totalCount, and the data query it sends starts before totalCount.
C1_NextNeverPastLastPage ==
    (last.op = "nextCountSettled" /\ SentOneDataQuery) =>
        /\ (currentPage - 1) * limit < TotalMatching(searchParams)
        /\ issued[1].url.start < TotalMatching(issued[1].url.params)

\* C2: a step of a refresh that fails (it logs an error) changes neither the
\* displayed rows nor the displayed summary.
C2_FailureLeavesViewIntact ==
    [][logged' # <<>> => (tbody' = tbody /\ entriesAmount' = entriesAmount)]_vars

\* The number an <option> value of the entry-limit <select> stands for.
PageSizeOf(selectedValue) ==
    CASE selectedValue = <<"5">> -> 5
      [] selectedValue = <<"1", "0">> -> 10
      [] selectedValue = <<"2", "0">> -> 20

\* C3: for every allowed page size and every prior state, setPageSize sets
\* pageSize to that value, resets page to 1 and sends one data query with
\* offset 0 and limit equal to the new pageSize.
C3_SetPageSizeResetsPage ==
    [][\A selectedValue \in SelectValues :
          HandleSelectChange(selectedValue) =>
              /\ limit' = PageSizeOf(selectedValue)
              /\ currentPage' = 1
              /\ SentOneDataQuery'
              /\ issued'[1].url.start = 0
              /\ issued'[1].url.limit = PageSizeOf(selectedValue)]_vars

\* C3 happens: a page size was chosen on a later page, and the page is 1 again.
C3_Witness ==
    /\ last.op = "handleSelectChange"
    /\ last.before.currentPage = 3
    /\ limit = 20
    /\ currentPage = 1
    /\ SentOneDataQuery
    /\ issued[1].url.start = 0
    /\ issued[1].url.limit = 20

\* t is text with the white space at both ends of value removed.
IsTrimOf(t, value) ==
    /\ t = <<>> \/ (t[1] # Space /\ t[Len(t)] # Space)
    /\ \E k \in 0..(Len(value) - Len(t)) :
          /\ SubSeq(value, k + 1, k + Len(t)) = t
          /\ \A j \in (1..k) \cup ((k + Len(t) + 1)..Len(value)) : value[j] = Space

TrimmedText(value) ==
    CHOOSE t \in {SubSeq(value, a, b) : a \in 1..(Len(value) + 1), b \in 0..Len(value)} :
        IsTrimOf(t, value)

\* The query parameter that filters on the field of search input index.
FilterKey(index) ==
    <<"name_like", "capital_like", "currency.name_like", "language.name_like">>[index]

\* C4: for every filter field and every text, setFilter leaves no filter at all
\* when the trimmed text is shorter than 2, whatever filter was active, and
\* otherwise exactly the pair (field, trimmed text); the data query it sends
\* carries exactly that filter.
C4_SetFilter ==
    [][\A index \in InputIndexes, value \in InputValues :
          HandleInput(index, value) =>
              /\ searchParams' = IF Len(TrimmedText(value)) < 2 THEN <<>>
                                 ELSE (FilterKey(index) :> TrimmedText(value))
              /\ SentOneDataQuery'
              /\ issued'[1].url.params = searchParams']_vars

\* C4 happens: a filter on one field was active and a too short text in the
\* input of another field cleared it, the query carrying no filter.
C4_Witness ==
    /\ last.op = "handleInput"
    /\ DOMAIN last.before.searchParams = {"capital_like"}
    /\ searchParams = <<>>
    /\ SentOneDataQuery
    /\ issued[1].url.params = <<>>

\* The data queries of the suspended fetchData calls and of the last step.
DataUrls ==
    {t.url : t \in {t \in BagToSet(tasks) : t.fn = "fetchData"}}
        \cup {issued[k].url : k \in {k \in 1..Len(issued) : issued[k].kind = "data"}}

\* C5: at most one filter field is active in every reachable state, and no data
\* query carries filter parameters for two fields.
C5_OneFilterField ==
    /\ Cardinality(DOMAIN searchParams) <= 1
    /\ \A url \in DataUrls : Cardinality(DOMAIN url.params) <= 1

\* C5 happens: a filter on one field was set while a filter on another field
\* was active, and only the new one is left.
C5_Witness ==
    /\ last.op = "handleInput"
    /\ DOMAIN last.before.searchParams = {"name_like"}
    /\ DOMAIN searchParams = {"language.name_like"}
    /\ SentOneDataQuery
    /\ DOMAIN issued[1].url.params = {"language.name_like"}

\* C6: every setFilter, setting or clearing, resets page to 1 and sends a data
\* query with offset 0.
C6_SetFilterResetsPage ==
    [][\A index \in InputIndexes, value \in InputValues :
          HandleInput(index, value) =>
              /\ currentPage' = 1
              /\ SentOneDataQuery'
              /\ issued'[1].url.start = 0]_vars

\* C6 happens: a filter was set on a later page and the page is 1 again.
C6_Witness ==
    /\ last.op = "handleInput"
    /\ last.before.currentPage = 3
    /\ searchParams # <<>>
    /\ currentPage = 1
    /\ SentOneDataQuery
    /\ issued[1].url.start = 0

\* C7: goToPreviousPage at page 1 changes no field and sends no request; at a
\* page p > 1 it sets page to p-1, changes no other field and sends exactly one
\* request, a data query with offset (p-2)*pageSize.
C7_PreviousPage ==
    [][HandlePrevButtonClick =>
          IF currentPage = 1
          THEN /\ listState' = listState
               /\ issued' = <<>>
               /\ tasks' = tasks
          ELSE /\ currentPage' = currentPage - 1
               /\ <<limit, searchParams, sortColumn, sortDirection>>'
                      = <<limit, searchParams, sortColumn, sortDirection>>
               /\ SentOneDataQuery'
               /\ issued'[1].url.start = (currentPage - 2) * limit
               /\ issued'[1].url.limit = limit]_vars

\* C7 happens: the previous button was clicked on page 1; no field changed and
\* nothing was sent.
C7_Witness ==
    /\ last.op = "handlePrevButtonClick"
    /\ last.before.currentPage = 1
    /\ ListState = last.before
    /\ issued = <<>>
    /\ tasks = EmptyBag

Flipped(direction) == IF direction = "asc" THEN "desc" ELSE "asc"

\* C8: setSort(f) on another field than the current one sets sortField = f,
\* ascending; on the current one it flips the direction.  Hence, by the
\* direction handleSortClick computes, two setSort(f) in a row on the current
\* field restore the direction, and setSort(f) on a new field followed by two
\* more setSort(f) ends ascending.
C8_SetSort ==
    [][/\ \A f \in SortableColumns :
             HandleSortClick(f) =>
                 /\ sortColumn' = f
                 /\ sortDirection' = IF f = sortColumn THEN Flipped(sortDirection) ELSE "asc"
       /\ \A f \in SortableColumns :
             LET once   == NewSortDirection(f, sortColumn, sortDirection)
                 twice  == NewSortDirection(f, f, once)
                 thrice == NewSortDirection(f, f, twice)
             IN /\ f = sortColumn => twice = sortDirection
                /\ f # sortColumn => (once = "asc" /\ thrice = "asc")]_vars

\* C8 happens: the third click in a row on one column, back to ascending.
C8_Witness ==
    /\ last.op = "handleSortClick"
    /\ events = 3
    /\ last.before.sortColumn = "capital"
    /\ last.before.sortDirection = "desc"
    /\ sortColumn = "capital"
    /\ sortDirection = "asc"

\* C9: setSort leaves page, pageSize and the filter as they are, and sends one
\* data query with offset (page-1)*pageSize, the filter, the new sort field and
\* the new direction.
C9_SetSortKeepsPage ==
    [][\A f \in SortableColumns :
          HandleSortClick(f) =>
              /\ <<currentPage, limit, searchParams>>' = <<currentPage, limit, searchParams>>
              /\ SentOneDataQuery'
              /\ issued'[1].url.start = (currentPage - 1) * limit
              /\ issued'[1].url.limit = limit
              /\ issued'[1].url.params = searchParams
              /\ issued'[1].url.sort =
                     <<f, IF f = sortColumn THEN Flipped(sortDirection) ELSE "asc">>]_vars

\* C9 happens: a column was clicked on page 3, and the query asks for page 3.
C9_Witness ==
    /\ last.op = "handleSortClick"
    /\ last.before.currentPage = 3
    /\ currentPage = 3
    /\ SentOneDataQuery
    /\ issued[1].url.start = 10
    /\ issued[1].url.sort = <<"name", "asc">>

\* C10: when the count request of goToNextPage succeeds with total T, the page
\* p goes to p+1 with one data query of offset p*pageSize if p < ceil(T/pageSize),
\* that is if p*pageSize < T; otherwise the page stays and no request is sent.
C10_NextPage ==
    [][\A t \in BagToSet(tasks) :
          NextCountSettled(t, "ok") =>
              IF currentPage * limit < XTotalCount(CountUrl)
              THEN /\ currentPage' = currentPage + 1
                   /\ SentOneDataQuery'
                   /\ issued'[1].url.start = currentPage * limit
                   /\ issued'[1].url.limit = limit
              ELSE /\ currentPage' = currentPage
                   /\ issued' = <<>>]_vars

\* C10 happens: with page size 5 the third next click in a row finds the page
\* at ceil(T/5), and the page stays there.
C10_Witness ==
    /\ last.op = "nextCountSettled"
    /\ last.outcome = "ok"
    /\ events = 3
    /\ limit = 5
    /\ currentPage = Ceil(NumCountries, 5)
    /\ currentPage = 3
    /\ issued = <<>>

\* The data query of a refresh that starts with the fields as they are now.
CurrentUrl == FetchData(currentPage, limit, searchParams, sortColumn, sortDirection).url

\* The rows of the response to a data query.
RowsOf(url) == RenderItems(ResponseItems(url))

\* C11: no discard rule for out-of-order completions: the body of every
\* response is rendered when it arrives, also when its query is not the one of
\* the current fields, and the settling of a count request leaves the rows alone.
C11_NoDiscardRule ==
    [][/\ \A t \in BagToSet(tasks) :
             JsonResolved(t) => tbody' = RowsOf(t.url)
       /\ \A t \in BagToSet(tasks), outcome \in CountOutcomes :
             FetchDataCountSettled(t, outcome) => tbody' = tbody]_vars

\* C11 happens: the constructor's refresh A (page 1) and the refresh B of a next
\* click (page 2) have both finished; B wrote its summary (from 6), so B had
\* rendered, and the rows are those of A, not those of the current fields.
C11_Witness ==
    /\ tasks = EmptyBag
    /\ events = 1
    /\ currentPage = 2
    /\ entriesAmount # NoText
    /\ entriesAmount.from = 6
    /\ tbody = RowsOf(BuildApiUrl(BaseApiUrl(5, 0), <<>>, Null, "asc"))
    /\ tbody # RowsOf(CurrentUrl)


\* C12: the total count Z shown in the summary of a refresh whose count request
\* succeeded is the number of items matching the filter of that refresh's data
\* query, with and without a filter.
C12_SummaryTotalMatchesFilter ==
    [][\A t \in BagToSet(tasks) :
          FetchDataCountSettled(t, "ok") =>
              entriesAmount'.of = TotalMatching(t.url.params)]_vars


\* C13: in every reachable state page is an integer >= 1 and pageSize is one of
\* the allowed sizes 5, 10, 20, and every data query issued or in flight has an
\* offset that is a non-negative multiple of its limit.
C13_PageAndPageSize ==
    /\ currentPage \in Nat \ {0}
    /\ limit \in {5, 10, 20}
    /\ \A url \in DataUrls :
          /\ url.limit \in {5, 10, 20}
          /\ url.start \in Nat
          /\ url.start % url.limit = 0

\* C13 happens: after a page size other than the initial one was chosen and the
\* page was advanced, a data query with a positive offset has just been sent.
C13_Witness ==
    /\ currentPage = 2
    /\ limit = 10
    /\ SentOneDataQuery
    /\ issued[1].url.start = 10


\* C14: the data query a step sends is derived from ListState as that step
\* leaves it, which is ListState at the start of the refresh: offset =
\* (page-1)*pageSize, limit = pageSize, the filter field and text if and only
\* if a filter is active, the sort field and direction if and only if a sort
\* field is set; the query of the constructor's refresh has offset 0, limit 5,
\* no filter and no sort.
C14_QueryFromListState ==
    /\ \A k \in 1..Len(issued) :
          issued[k].kind = "data" =>
              /\ issued[k].url.start = (currentPage - 1) * limit
              /\ issued[k].url.limit = limit
              /\ IF DOMAIN searchParams = {}
                 THEN DOMAIN issued[k].url.params = {}
                 ELSE issued[k].url.params = searchParams
              /\ IF sortColumn = Null
                 THEN issued[k].url.sort = <<>>
                 ELSE issued[k].url.sort = <<sortColumn, sortDirection>>
    /\ last.op = "constructor" =>
          /\ SentOneDataQuery
          /\ issued[1].url.start = 0
          /\ issued[1].url.limit = 5
          /\ DOMAIN issued[1].url.params = {}
          /\ issued[1].url.sort = <<>>

\* C14 happens: with a filter active and a sort field set, an advance to page 2
\* has just sent its data query.
C14_Witness ==
    /\ SentOneDataQuery
    /\ currentPage = 2
    /\ DOMAIN searchParams # {}
    /\ sortColumn # Null
    /\ issued[1].url.start = limit


\* C15: in the summary a refresh writes, X = offset+1 and Y is the position of
\* the last item on the rendered page, so that X <= Y <= Z when the page is not
\* empty; stated for refreshes without a filter whose count request succeeded,
\* where Z is the size of the collection (pageSize 5, total 12, page 3: 11 to 12).
C15_SummaryRange ==
    [][\A t \in BagToSet(tasks) :
          (FetchDataCountSettled(t, "ok") /\ DOMAIN t.url.params = {}) =>
              /\ entriesAmount'.from = t.offset + 1
              /\ entriesAmount'.to = t.offset + Len(ResponseItems(t.url))
              /\ Len(ResponseItems(t.url)) > 0 =>
                    /\ entriesAmount'.from <= entriesAmount'.to
                    /\ entriesAmount'.to <= entriesAmount'.of]_vars


\* C16: the summary a refresh writes is computed from the page and pageSize of
\* the data query this refresh sent, also when user events are handled while
\* its requests are in flight: X is the query's offset + 1 and the range spans
\* the query's own limit, never the pageSize of another ListState.
C16_SummaryFromOwnQuery ==
    [][\A t \in BagToSet(tasks), outcome \in CountOutcomes :
          FetchDataCountSettled(t, outcome) =>
              /\ entriesAmount'.from = t.url.start + 1
              /\ entriesAmount'.to = t.url.start + t.url.limit]_vars


\* C17: when the count request of goToNextPage fails or its response carries no
\* total count, goToNextPage is a no-op: ListState is unchanged, no request is
\* sent, no refresh is started and the rows and the summary stay as they were.
C17_NextWithoutTotalIsNoOp ==
    [][\A t \in BagToSet(tasks), outcome \in {"noHeader", "fail"} :
          NextCountSettled(t, outcome) =>
              /\ ListState' = ListState
              /\ issued' = <<>>
              /\ tasks' = Without(t)
              /\ tbody' = tbody
              /\ entriesAmount' = entriesAmount]_vars

\* C17 happens: on a rendered first page, whose own total was 12, the count
\* request of a next click has just failed, and nothing is in flight.
C17_Witness ==
    /\ last.op = "nextCountSettled"
    /\ last.outcome = "fail"
    /\ currentPage = 1
    /\ tbody # <<>>
    /\ entriesAmount # NoText
    /\ entriesAmount.of = NumCountries
    /\ tasks = EmptyBag


\* C18: a successful render replaces the displayed rows by one row per item of
\* the response being rendered, in the order of the response: afterwards there
\* are as many rows as items, the k-th row shows the k-th item, and nothing of
\* the rows displayed before remains, also when the response has no items.
C18_RenderReplacesRows ==
    [][\A t \in BagToSet(tasks) :
          JsonResolved(t) =>
              LET items == ResponseItems(t.url)
              IN /\ Len(tbody') = Len(items)
                 /\ \A k \in 1..Len(items) :
                       /\ tbody'[k].flag = ToLocaleLowerCase(items[k].code)
                       /\ tbody'[k].name = items[k].name
                       /\ tbody'[k].capital = items[k].capital
                       /\ tbody'[k].currency = items[k].currency.name
                       /\ tbody'[k].language = items[k].language.name]_vars

\* C18 happens: after an earlier refresh had rendered and written its summary,
\* the response to a filtered query with no matching item has just been
\* rendered, and no row is displayed.
C18_Witness ==
    /\ last.op = "jsonResolved"
    /\ DOMAIN searchParams # {}
    /\ entriesAmount # NoText
    /\ tbody = <<>>


\* The calls in flight of one function.
CallsOf(fn) == {t \in BagToSet(tasks) : t.fn = fn}

\* C19: when every request eventually responds or fails, a controller with
\* calls in flight eventually has none (it is idle again), and a refresh that
\* ends has rendered or has logged an error. Nothing is retried: a step sends
\* at most one request and none when it logs an error; a settling never adds
\* a call; a data request is sent only by the handler of a user event other
\* than the next click or by the one settling that ends a next click; a count
\* request is sent only by the next click itself or by the one step of a
\* refresh that renders its response.
C19_FinishesWithoutRetry ==
    /\ (tasks # EmptyBag) ~> (tasks = EmptyBag)
    /\ [][/\ Len(issued') <= 1
          /\ logged' # <<>> => issued' = <<>>
          /\ events' = events => BagCardinality(tasks') <= BagCardinality(tasks)
          /\ events' # events => BagCardinality(tasks') <= BagCardinality(tasks) + 1
          /\ \A t \in CallsOf("fetchData") :
                tasks' = Without(t) => (t.pc = "count" \/ logged' # <<>>)
          /\ \A k \in 1..Len(issued') :
                /\ issued'[k].kind = "data" =>
                      \/ events' = events + 1 /\ last'.op # "handleNextButtonClick"
                      \/ \E t \in CallsOf("handleNextButtonClick") :
                            \E call \in BagToSet(tasks') :
                               /\ call.fn = "fetchData"
                               /\ call.pc = "fetch"
                               /\ call.url = issued'[k].url
                               /\ tasks' = Without(t) (+) SetToBag({call})
                /\ issued'[k].kind = "count" =>
                      \/ /\ events' = events + 1
                         /\ last'.op = "handleNextButtonClick"
                         /\ BagCardinality(tasks') = BagCardinality(tasks) + 1
                      \/ \E t \in CallsOf("fetchData") :
                            t.pc = "json" /\ tasks' = Resumed(t, "count")]_vars

\* C19 happens: after a user event the request of the last refresh in flight
\* was rejected, an error was logged and nothing is in flight.
C19_Witness ==
    /\ events = MaxOverlapEvents
    /\ last.op = "fetchRejected"
    /\ logged # <<>>
    /\ issued = <<>>
    /\ tasks = EmptyBag


\* C20: every step other than the handling of a sort click (setPageSize,
\* setFilter, goToPreviousPage, goToNextPage and every settling) leaves
\* sortField and sortDirection unchanged; a set sortField is never unset; and
\* every data query sent while a sort field is set carries that field and the
\* direction.
C20_SortIsKept ==
    [][/\ last'.op # "handleSortClick" =>
             (sortColumn' = sortColumn /\ sortDirection' = sortDirection)
       /\ sortColumn # Null => sortColumn' # Null
       /\ \A k \in 1..Len(issued') :
             (issued'[k].kind = "data" /\ sortColumn' # Null) =>
                 issued'[k].url.sort = <<sortColumn', sortDirection'>>]_vars

\* C20 happens: a column was clicked twice (descending), and the filter set
\* afterwards has just sent a data query that carries the sort.
C20_Witness ==
    /\ last.op = "handleInput"
    /\ sortColumn # Null
    /\ sortDirection = "desc"
    /\ DOMAIN searchParams # {}
    /\ SentOneDataQuery
    /\ issued[1].url.sort = <<sortColumn, "desc">>

====
